---- MODULE Spec2Model ----
(***************************************************************************)
(* Model of asyncmd/trajectory/propagate.py: the conditional trajectory    *)
(* propagator (propagate, cut_and_concatenate, propagate_and_concatenate,  *)
(* _condition_vals_for_traj) and the two-direction join                    *)
(* construct_TP_from_plus_and_minus_traj_segments.                         *)
(*                                                                         *)
(* A trajectory is a record [id, frames]; frames is the sequence of its    *)
(* frames and every frame is the set of condition indices that hold on it, *)
(* so condition c applied to a trajectory yields the boolean vector        *)
(* "c \in frame" of the trajectory's length.  Indices of conditions,       *)
(* frames and list positions are 0-based as in the source; TLA+ sequences  *)
(* are 1-based, hence the "+ 1" where a sequence is read.                  *)
(***************************************************************************)
EXTENDS Integers, Sequences, FiniteSets, TLC

\* ------------------------------------------------------------------ bounds
\* number of condition functions of the propagator
NumConds == 2
\* total number of frames of a segment list handed to cut_and_concatenate
MaxFrames == 3
\* total number of frames of the segments of one propagate call, those found
\* on disk and those the engine produces
MaxRunFrames == 2
\* number of frames of a starting configuration
MaxStartFrames == 2
\* largest max_steps / max_frames argument given to __init__
MaxBudget == 1
\* largest number of integration steps one engine segment adds
MaxDelta == 1
\* stitch operations launched at the same time
NumOps == 3
\* capacity of the MAX_PROCESS semaphore
MaxProcess == 2
\* number of condition functions where _condition_vals_for_traj is followed
\* coroutine by coroutine
NumEvalConds == 3
\* largest max_steps and max_frames argument where __init__ is followed
MaxArg == 4
\* largest output frequency nstout where __init__ is followed
MaxNstout == 3

\* ------------------------------------------------------- python stand-ins
\* Python's None (slice bounds, absent arguments); no index takes this value
None == -1000
\* numpy.inf of self.max_steps; compared with LeqMaxSteps only
inf == -2000

Conds == 0 .. (NumConds - 1)

Min2(a, b) == IF a < b THEN a ELSE b
Max2(a, b) == IF a > b THEN a ELSE b

RECURSIVE SumSeq(_)
SumSeq(s) == IF s = <<>> THEN 0 ELSE Head(s) + SumSeq(Tail(s))

RECURSIVE Flatten(_)
Flatten(ss) == IF ss = <<>> THEN <<>> ELSE Head(ss) \o Flatten(Tail(ss))

\* s[:n] of a python list
Prefix(s, n) == SubSeq(s, 1, Min2(n, Len(s)))

\* ------------------------------------------------------------ trajectories
FrameVals == SUBSET Conds

FramesOfLen(n) == [1 .. n -> FrameVals]

\* every list of non-empty segments with at most n frames in total, the
\* frames taken from vals
RECURSIVE ChainsOver(_, _)
ChainsOver(vals, n) ==
    IF n = 0 THEN {<<>>}
    ELSE {<<>>} \cup UNION { { <<s>> \o rest : s \in [1 .. k -> vals],
                                               rest \in ChainsOver(vals, n - k) }
                             : k \in 1 .. n }

ChainsUpTo(n) == ChainsOver(FrameVals, n)

\* Trajectory objects for a list of frame sequences, numbered from first
WithIds(chain, first) ==
    [i \in 1 .. Len(chain) |-> [id |-> first + i - 1, frames |-> chain[i]]]

TotalFrames(ts) == SumSeq([i \in 1 .. Len(ts) |-> Len(ts[i].frames)])

\* how many entries the vectors the condition functions return have more
\* than the trajectory has frames: 0 for conditions that keep their contract
VARIABLE shape_skew

\* the result of condition function c on a trajectory: one boolean per
\* frame; a function that breaks its contract drops the last frame or adds
\* an entry that is false
CondVal(c, traj) ==
    [f \in 1 .. Max2(0, Len(traj.frames) + shape_skew) |->
        f <= Len(traj.frames) /\ c \in traj.frames[f]]

\* what _condition_vals_for_traj returns: the list of the conditions' results
ConditionVals(traj) == [k \in 1 .. NumConds |-> CondVal(k - 1, traj)]

\* ------------------------------------------------------------------ numpy
\* np.concatenate(..., axis=1) of a non-empty list of (conditions x frames)
ConcatenateAxis1(ms) ==
    [k \in 1 .. NumConds |-> Flatten([i \in 1 .. Len(ms) |-> ms[i][k]])]

\* np.any of a (conditions x frames) matrix
np_any(m) == \E k \in 1 .. Len(m) : \E f \in 1 .. Len(m[k]) : m[k][f]

\* np.where of a (conditions x frames) matrix: the true entries in row-major
\* order, as the sequence of <<condition, frame>> pairs
RECURSIVE WhereFrom(_, _)
WhereFrom(m, k) ==
    LET F == Len(m[1]) IN
    IF k >= Len(m) * F THEN <<>>
    ELSE LET c == k \div F
             f == k % F
         IN (IF m[c + 1][f + 1] THEN << <<c, f>> >> ELSE <<>>)
            \o WhereFrom(m, k + 1)

np_where(m) == WhereFrom(m, 0)

conds_of(w) == [i \in 1 .. Len(w) |-> w[i][1]]
frames_of(w) == [i \in 1 .. Len(w) |-> w[i][2]]

\* a wrong argmin: the last position of the minimum
np_argmin_last(s) ==
    CHOOSE i \in 0 .. (Len(s) - 1) :
        /\ \A j \in 0 .. (Len(s) - 1) : s[j + 1] >= s[i + 1]
        /\ \A j \in (i + 1) .. (Len(s) - 1) : s[j + 1] > s[i + 1]

\* np.argmin of a non-empty vector: the first position of the minimum
np_argmin(s) ==
    CHOOSE i \in 0 .. (Len(s) - 1) :
        /\ \A j \in 0 .. (Len(s) - 1) : s[j + 1] >= s[i + 1]
        /\ \A j \in 0 .. (i - 1) : s[j + 1] > s[i + 1]

\* --------------------------------------------------------- python slicing
\* slice(start, stop, step).indices(n) followed by range(): the frame
\* indices a (start, stop, step) slice reads from a trajectory of n frames
ClampIdx(v, n, lower, upper, dflt) ==
    IF v = None THEN dflt
    ELSE LET w == IF v < 0 THEN v + n ELSE v
         IN IF w < lower THEN lower ELSE IF w > upper THEN upper ELSE w

SliceFrames(n, sl) ==
    LET step == sl[3]
        lower == IF step < 0 THEN -1 ELSE 0
        upper == IF step < 0 THEN n - 1 ELSE n
        start == ClampIdx(sl[1], n, lower, upper,
                          IF step < 0 THEN upper ELSE lower)
        stop == ClampIdx(sl[2], n, lower, upper,
                         IF step < 0 THEN lower ELSE upper)
        cnt == IF step > 0 THEN Max2(0, stop - start)
               ELSE Max2(0, start - stop)
    IN [i \in 1 .. cnt |-> start + (i - 1) * step]

\* the frames TrajectoryConcatenator.concatenate writes, in output order, as
\* <<trajectory id, frame index>> pairs
Concatenate(ts, sls) ==
    Flatten([i \in 1 .. Len(ts) |->
               LET fr == SliceFrames(Len(ts[i].frames), sls[i])
               IN [j \in 1 .. Len(fr) |-> <<ts[i].id, fr[j]>>]])

\* ---------------------------------------------------------------- locator
\* a wrong walk: stops one part early when the frame is a part's first
RECURSIVE FindPartFromStrict(_, _, _, _)
FindPartFromStrict(part_lens, first_frame, last_part_idx, frame_sum) ==
    IF first_frame > frame_sum
    THEN FindPartFromStrict(part_lens, first_frame, last_part_idx + 1,
                            frame_sum + part_lens[last_part_idx + 2])
    ELSE last_part_idx

\* the while loop that finds the part holding global frame first_frame
RECURSIVE FindPartFrom(_, _, _, _)
FindPartFrom(part_lens, first_frame, last_part_idx, frame_sum) ==
    IF first_frame >= frame_sum
    THEN FindPartFrom(part_lens, first_frame, last_part_idx + 1,
                      frame_sum + part_lens[last_part_idx + 2])
    ELSE last_part_idx

FindPart(part_lens, first_frame) ==
    FindPartFrom(part_lens, first_frame, 0, part_lens[1])

\* first_frame - sum(part_lens[:last_part_idx])
LocalFrame(part_lens, first_frame, last_part_idx) ==
    first_frame - SumSeq(Prefix(part_lens, last_part_idx))

\* conds_fullfilled[np.argmin(frame_nums)] of np.where(cond_vals)
FirstConditionFullfilled(m) ==
    LET w == np_where(m)
        min_idx == np_argmin(frames_of(w))
    IN w[min_idx + 1][1]

\* frame_nums[np.argmin(frame_nums)] of np.where(cond_vals)
FirstFrameInCond(m) ==
    LET w == np_where(m)
        min_idx == np_argmin(frames_of(w))
    IN w[min_idx + 1][2]

\* wrong slices: the last part stops before the frame in the condition
CutSlicesExclusive(last_part_idx, first_frame_in_part) ==
    [i \in 1 .. last_part_idx |-> <<0, None, 1>>]
    \o << <<0, first_frame_in_part, 1>> >>

\* wrong slices: one full slice too many, range(last_part_idx + 1)
CutSlicesExtraPart(last_part_idx, first_frame_in_part) ==
    [i \in 1 .. (last_part_idx + 1) |-> <<0, None, 1>>]
    \o << <<0, first_frame_in_part + 1, 1>> >>

\* the slices of cut_and_concatenate for an address
CutSlices(last_part_idx, first_frame_in_part) ==
    [i \in 1 .. last_part_idx |-> <<0, None, 1>>]
    \o << <<0, first_frame_in_part + 1, 1>> >>

\* --------------------------------------------------------------- __init__
\* a wrong precedence: max_frames wins when both are given
ResolveMaxStepsFramesFirst(arg_max_steps, arg_max_frames, nstout) ==
    IF arg_max_frames # None THEN arg_max_frames * nstout
    ELSE IF arg_max_steps # None THEN arg_max_steps
    ELSE inf

\* self.max_steps from the max_steps and max_frames arguments
ResolveMaxSteps(arg_max_steps, arg_max_frames, nstout) ==
    IF arg_max_steps # None THEN arg_max_steps
    ELSE IF arg_max_frames # None THEN arg_max_frames * nstout
    ELSE inf

\* a wrong comparison: step_counter < self.max_steps
LtMaxSteps(n, m) == IF m = inf THEN TRUE ELSE n < m

\* step_counter <= self.max_steps
LeqMaxSteps(n, m) == IF m = inf THEN TRUE ELSE n <= m

BudgetArgs == {None} \cup (0 .. MaxBudget)
NstoutVals == {1, 2}

\* ------------------------------------------------------------------ state
VARIABLES
    call,                        \* the entry point that was called
    pc,                          \* position of the call
    max_steps,                   \* self.max_steps
    starting_configuration,      \* argument of propagate
    continuation,                \* argument of propagate
    engine,                      \* the MD engine of this propagate call
    traj,                        \* the segment run_walltime returned last
    trajs,                       \* the segment list
    cond_vals,                   \* the condition values computed last
    any_cond_fullfilled,
    step_counter,
    first_condition_fullfilled,
    ret,                         \* what propagate returned, <<>> before
    raised,                      \* the exception that ended the call
    evaluated,                   \* engine segments whose evaluation is done
    part_lens,                   \* cut_and_concatenate: address and plan
    last_part_idx,
    first_frame_in_cond,
    first_frame_in_part,
    slices,
    concat_trajs,
    full_traj,                   \* the frames of the stitched trajectory
    minus_trajs,                 \* construct_TP_...: arguments and locals
    minus_state,
    plus_trajs,
    plus_state,
    minus_state_vals,
    plus_state_vals,
    first_frame_in_minus,
    first_frame_in_plus,
    sem,                         \* free permits of _SEMAPHORES["MAX_PROCESS"]
    op_kind,                     \* per stitch operation: the function called
    op_pc,                       \* per stitch operation: its position
    op_raised,                   \* per stitch operation: how it failed
    is_coroutine,                \* self._condition_func_is_coroutine
    pending,                     \* conditions whose coroutine is running
    coro_res,                    \* the result list asyncio.gather fills
    completed,                   \* the coroutines in order of completion
    ctor_args                    \* the arguments of __init__ while it runs

vars == <<call, pc, max_steps, starting_configuration, continuation, engine,
          traj, trajs, cond_vals, any_cond_fullfilled, step_counter,
          first_condition_fullfilled, ret, raised, evaluated, part_lens,
          last_part_idx, first_frame_in_cond, first_frame_in_part, slices,
          concat_trajs, full_traj, minus_trajs, minus_state, plus_trajs,
          plus_state, minus_state_vals, plus_state_vals, first_frame_in_minus,
          first_frame_in_plus, sem, op_kind, op_pc, op_raised, is_coroutine,
          pending, coro_res, completed, ctor_args, shape_skew>>

propVars == <<engine, traj, any_cond_fullfilled, step_counter, ret,
              evaluated>>
locVars == <<last_part_idx, first_frame_in_cond, first_frame_in_part,
             slices, concat_trajs, full_traj>>
cutVars == <<part_lens, locVars>>
tpArgs == <<minus_trajs, minus_state, plus_trajs, plus_state>>
tpVars == <<tpArgs, minus_state_vals, plus_state_vals, first_frame_in_minus,
            first_frame_in_plus>>
\* the arguments of the propagator's methods, and with them what its methods
\* never touch
opVars == <<op_kind, op_pc, op_raised>>
semVars == <<sem, opVars>>
evalVars == <<is_coroutine, pending, coro_res, completed>>
ctorVars == <<ctor_args, shape_skew>>
argVars == <<call, max_steps, starting_configuration, continuation, tpVars,
             semVars, evalVars, ctorVars>>

\* parts: the engine's part counter; runs: run_walltime calls of this call
NoEngine == [constructed |-> FALSE, prepared |-> "no", steps_done |-> 0,
             parts |-> 0, runs |-> 0]
NoTraj == [id |-> 0, frames |-> <<>>]

InitCallLocals ==
    /\ engine = NoEngine
    /\ cond_vals = <<>>
    /\ any_cond_fullfilled = FALSE
    /\ step_counter = 0
    /\ first_condition_fullfilled = None
    /\ ret = <<>>
    /\ raised = "none"
    /\ evaluated = 0
    /\ part_lens = <<>>
    /\ last_part_idx = None
    /\ first_frame_in_cond = None
    /\ first_frame_in_part = None
    /\ slices = <<>>
    /\ concat_trajs = <<>>
    /\ full_traj = <<>>
    /\ minus_state_vals = <<>>
    /\ plus_state_vals = <<>>
    /\ first_frame_in_minus = None
    /\ first_frame_in_plus = None

Ops == 1 .. NumOps

\* _SEMAPHORES["MAX_PROCESS"]: a counting limiter, every permit free
SemaphoreFree == sem = MaxProcess

\* every condition returns one value per frame of its trajectory
ShapesMatch == shape_skew = 0

\* the propagator is constructed: __init__ is not the call followed
Constructed == ctor_args = None

\* when the call starts every permit is free and no stitch operation of
\* the launched kind is followed
NoOtherOps ==
    /\ SemaphoreFree
    /\ op_kind = [p \in Ops |-> "none"]
    /\ op_pc = [p \in Ops |-> "none"]
    /\ op_raised = [p \in Ops |-> "none"]

\* the conditions are wrapped functions, coroutines all of them, and their
\* evaluation is taken in one step
WrappedConditions ==
    /\ is_coroutine = [k \in 1 .. NumConds |-> TRUE]
    /\ pending = {}
    /\ coro_res = <<>>
    /\ completed = <<>>

InitLocals == InitCallLocals /\ traj = NoTraj

\* construct_TP_from_plus_and_minus_traj_segments is not called
NoTPArgs ==
    /\ minus_trajs = <<>>
    /\ minus_state = None
    /\ plus_trajs = <<>>
    /\ plus_state = None

StartConfigs ==
    UNION { { [id |-> 0, frames |-> fr] : fr \in FramesOfLen(n) }
            : n \in 1 .. MaxStartFrames }

\* a propagator was constructed and propagate is called on a starting
\* configuration, by the user or by propagate_and_concatenate
PropagateCalled ==
    /\ call = "propagate"
    /\ pc = "propagate"
    /\ \E ms \in BudgetArgs, mf \in BudgetArgs, nstout \in NstoutVals :
           max_steps = ResolveMaxSteps(ms, mf, nstout)
    /\ starting_configuration \in StartConfigs
    /\ continuation \in BOOLEAN
    /\ trajs = <<>>
    /\ NoTPArgs
    /\ NoOtherOps
    /\ WrappedConditions
    /\ Constructed
    /\ InitLocals

\* a propagator was constructed and cut_and_concatenate is called on a list
\* of segments
CutCalled ==
    /\ call = "cut_and_concatenate"
    /\ pc = "cut"
    /\ max_steps = inf
    /\ starting_configuration = NoTraj
    /\ continuation = FALSE
    /\ trajs \in { WithIds(ch, 1) : ch \in ChainsUpTo(MaxFrames) }
    /\ NoTPArgs
    /\ NoOtherOps
    /\ WrappedConditions
    /\ Constructed
    /\ InitLocals

InitPropagate == PropagateCalled /\ ShapesMatch

InitCut == CutCalled /\ ShapesMatch

Init == InitPropagate \/ InitCut

\* ---------------------------------------------------------------- propagate
\* the segment lists get_all_traj_parts can find on disk
DiskChains == ChainsUpTo(MaxRunFrames)

\* engine.steps_done after prepare_from_files
DiskSteps == 0 .. (MaxBudget + 1)

\* a wrong start: the engine is constructed before the starting
\* configuration is looked at
CheckStartingConfigurationEngineFirst ==
    /\ pc = "propagate"
    /\ cond_vals' = ConditionVals(starting_configuration)
    /\ engine' = [engine EXCEPT !.constructed = TRUE]
    /\ IF np_any(cond_vals')
       THEN /\ first_condition_fullfilled' =
                   FirstConditionFullfilled(cond_vals')
            /\ trajs' = <<starting_configuration>>
            /\ ret' = <<trajs', first_condition_fullfilled'>>
            /\ pc' = "returned"
       ELSE /\ pc' = IF continuation THEN "get_parts" ELSE "prepare"
            /\ UNCHANGED <<first_condition_fullfilled, trajs, ret>>
    /\ UNCHANGED <<argVars, traj, any_cond_fullfilled, step_counter, raised,
                   evaluated, cutVars>>

\* propagate up to the awaited engine preparation: the conditions on the
\* starting configuration, the early return, the engine's construction
CheckStartingConfiguration ==
    /\ pc = "propagate"
    /\ cond_vals' = ConditionVals(starting_configuration)
    /\ IF np_any(cond_vals')
       THEN /\ first_condition_fullfilled' =
                   FirstConditionFullfilled(cond_vals')
            /\ trajs' = <<starting_configuration>>
            /\ ret' = <<trajs', first_condition_fullfilled'>>
            /\ pc' = "returned"
            /\ UNCHANGED engine
       ELSE /\ engine' = [engine EXCEPT !.constructed = TRUE]
            /\ pc' = IF continuation THEN "get_parts" ELSE "prepare"
            /\ UNCHANGED <<first_condition_fullfilled, trajs, ret>>
    /\ UNCHANGED <<argVars, traj, any_cond_fullfilled, step_counter, raised,
                   evaluated, cutVars>>

\* no continuation: engine.prepare and the loop's initial values
Prepare ==
    /\ pc = "prepare"
    /\ engine' = [engine EXCEPT !.prepared = "prepare", !.steps_done = 0,
                                !.parts = 0]
    /\ any_cond_fullfilled' = FALSE
    /\ trajs' = <<>>
    /\ step_counter' = 0
    /\ pc' = "loop"
    /\ UNCHANGED <<argVars, traj, cond_vals, first_condition_fullfilled, ret,
                   raised, evaluated, cutVars>>

\* continuation: get_all_traj_parts finds the segments already on disk
GetAllTrajParts ==
    /\ pc = "get_parts"
    /\ \E ch \in DiskChains : trajs' = WithIds(ch, 1)
    /\ pc' = "gather"
    /\ UNCHANGED <<argVars, engine, traj, cond_vals, any_cond_fullfilled,
                   step_counter, first_condition_fullfilled, ret, raised,
                   evaluated, cutVars>>

\* a wrong continuation: the recovered segments are evaluated, but a
\* condition that holds on them does not end the call before the engine is
\* prepared from the files
EvaluateRecoveredNoReturn ==
    /\ pc = "gather"
    /\ IF trajs = <<>>
       THEN /\ cond_vals' = <<>>
            /\ raised' = "ValueError"
            /\ pc' = "raised"
            /\ UNCHANGED any_cond_fullfilled
       ELSE /\ cond_vals' = ConcatenateAxis1(
                               [i \in 1 .. Len(trajs) |->
                                    ConditionVals(trajs[i])])
            /\ any_cond_fullfilled' = np_any(cond_vals')
            /\ pc' = "prepare_from_files"
            /\ UNCHANGED raised
    /\ UNCHANGED <<argVars, engine, traj, trajs, step_counter, evaluated,
                   first_condition_fullfilled, ret, cutVars>>

\* continuation: the gathered condition values of the recovered segments,
\* concatenated; gathering no segment leaves an empty list, on which
\* np.concatenate raises ValueError
EvaluateRecovered ==
    /\ pc = "gather"
    /\ IF trajs = <<>>
       THEN /\ cond_vals' = <<>>
            /\ raised' = "ValueError"
            /\ pc' = "raised"
            /\ UNCHANGED <<any_cond_fullfilled,
                           first_condition_fullfilled, ret>>
       ELSE /\ cond_vals' = ConcatenateAxis1(
                               [i \in 1 .. Len(trajs) |->
                                    ConditionVals(trajs[i])])
            /\ any_cond_fullfilled' = np_any(cond_vals')
            /\ IF any_cond_fullfilled'
               THEN /\ first_condition_fullfilled' =
                           FirstConditionFullfilled(cond_vals')
                    /\ ret' = <<trajs, first_condition_fullfilled'>>
                    /\ pc' = "returned"
               ELSE /\ pc' = "prepare_from_files"
                    /\ UNCHANGED <<first_condition_fullfilled, ret>>
            /\ UNCHANGED raised
    /\ UNCHANGED <<argVars, engine, traj, trajs, step_counter, evaluated,
                   cutVars>>

\* a wrong continuation: the step counter starts at 0 again
PrepareFromFilesCounterZero ==
    /\ pc = "prepare_from_files"
    /\ \E sd \in DiskSteps :
           engine' = [engine EXCEPT !.prepared = "prepare_from_files",
                                    !.steps_done = sd,
                                    !.parts = Len(trajs)]
    /\ step_counter' = 0
    /\ pc' = "loop"
    /\ UNCHANGED <<argVars, traj, trajs, cond_vals, any_cond_fullfilled,
                   first_condition_fullfilled, ret, raised, evaluated,
                   cutVars>>

\* continuation: engine.prepare_from_files, step_counter = engine.steps_done
PrepareFromFiles ==
    /\ pc = "prepare_from_files"
    /\ \E sd \in DiskSteps :
           engine' = [engine EXCEPT !.prepared = "prepare_from_files",
                                    !.steps_done = sd,
                                    !.parts = Len(trajs)]
    /\ step_counter' = engine'.steps_done
    /\ pc' = "loop"
    /\ UNCHANGED <<argVars, traj, trajs, cond_vals, any_cond_fullfilled,
                   first_condition_fullfilled, ret, raised, evaluated,
                   cutVars>>

\* a wrong while condition: the step budget is not looked at
LoopConditionNoBudget == ~any_cond_fullfilled

\* a wrong while condition: the loop goes on while the budget lasts, also
\* after a condition has held
LoopConditionOr ==
    (~any_cond_fullfilled) \/ LeqMaxSteps(step_counter, max_steps)

\* the while condition
LoopCondition ==
    (~any_cond_fullfilled) /\ LeqMaxSteps(step_counter, max_steps)

\* a wrong loop head: asks for the next segment while one is being evaluated
RunWalltimeEarly ==
    /\ pc \in {"loop", "eval"}
    /\ LoopCondition
    /\ TotalFrames(trajs) < MaxRunFrames
    /\ \E n \in 1 .. (MaxRunFrames - TotalFrames(trajs)) :
         \E fr \in FramesOfLen(n) :
           traj' = [id |-> engine.parts + 1, frames |-> fr]
    /\ \E d \in 1 .. MaxDelta :
           engine' = [engine EXCEPT !.steps_done = @ + d, !.parts = @ + 1,
                                    !.runs = @ + 1]
    /\ pc' = "eval"
    /\ UNCHANGED <<argVars, trajs, cond_vals, any_cond_fullfilled,
                   step_counter, first_condition_fullfilled, ret, raised,
                   evaluated, cutVars>>

\* the loop is entered: engine.run_walltime produces the next segment and
\* advances engine.steps_done
RunWalltime ==
    /\ pc = "loop"
    /\ LoopCondition
    /\ TotalFrames(trajs) < MaxRunFrames
    /\ \E n \in 1 .. (MaxRunFrames - TotalFrames(trajs)) :
         \E fr \in FramesOfLen(n) :
           traj' = [id |-> engine.parts + 1, frames |-> fr]
    /\ \E d \in 1 .. MaxDelta :
           engine' = [engine EXCEPT !.steps_done = @ + d, !.parts = @ + 1,
                                    !.runs = @ + 1]
    /\ pc' = "eval"
    /\ UNCHANGED <<argVars, trajs, cond_vals, any_cond_fullfilled,
                   step_counter, first_condition_fullfilled, ret, raised,
                   evaluated, cutVars>>

\* the rest of the loop body once the conditions on the segment are known
EvaluateSegment ==
    /\ pc = "eval"
    /\ cond_vals' = ConditionVals(traj)
    /\ any_cond_fullfilled' = np_any(cond_vals')
    /\ step_counter' = engine.steps_done
    /\ trajs' = Append(trajs, traj)
    /\ evaluated' = evaluated + 1
    /\ pc' = "loop"
    /\ UNCHANGED <<argVars, engine, traj, first_condition_fullfilled, ret,
                   raised, cutVars>>

\* a wrong exit: the budget is looked at before the condition
RaiseMaxStepsBudgetFirst ==
    /\ pc = "loop"
    /\ ~LeqMaxSteps(step_counter, max_steps)
    /\ raised' = "MaxStepsReachedError"
    /\ pc' = "raised"
    /\ UNCHANGED <<argVars, propVars, trajs, cond_vals,
                   first_condition_fullfilled, cutVars>>

\* the loop is left without a condition: MaxStepsReachedError
RaiseMaxSteps ==
    /\ pc = "loop"
    /\ ~LoopCondition
    /\ ~any_cond_fullfilled
    /\ raised' = "MaxStepsReachedError"
    /\ pc' = "raised"
    /\ UNCHANGED <<argVars, propVars, trajs, cond_vals,
                   first_condition_fullfilled, cutVars>>

\* the loop is left with a condition on the last segment: return
ReturnSegments ==
    /\ pc = "loop"
    /\ ~LoopCondition
    /\ any_cond_fullfilled
    /\ first_condition_fullfilled' = FirstConditionFullfilled(cond_vals)
    /\ ret' = <<trajs, first_condition_fullfilled'>>
    /\ pc' = "returned"
    /\ UNCHANGED <<argVars, engine, traj, trajs, cond_vals,
                   any_cond_fullfilled, step_counter, raised, evaluated,
                   cutVars>>

\* propagate_and_concatenate: propagate has returned and its segment list is
\* handed to cut_and_concatenate
ChainCutAndConcatenate ==
    /\ pc = "returned"
    /\ pc' = "cut"
    /\ UNCHANGED <<argVars, propVars, trajs, cond_vals,
                   first_condition_fullfilled, raised, cutVars>>

\* ------------------------------------------------------ cut_and_concatenate
\* cut_and_concatenate up to the semaphore: condition values of all
\* segments, the first frame in a condition, its address, the slices.
\* np.concatenate of no arrays (the empty lists gather and part_lens are
\* then) raises ValueError, and so does np.argmin of no frames, which is
\* what np.where returns when no condition holds.
CutLocate ==
    /\ pc = "cut"
    /\ IF trajs = <<>>
       THEN /\ cond_vals' = <<>>
            /\ part_lens' = <<>>
            /\ raised' = "ValueError"
            /\ pc' = "raised"
            /\ UNCHANGED <<first_condition_fullfilled, locVars>>
       ELSE /\ part_lens' = [i \in 1 .. Len(trajs) |->
                                Len(ConditionVals(trajs[i])[1])]
            /\ cond_vals' = ConcatenateAxis1(
                               [i \in 1 .. Len(trajs) |->
                                    ConditionVals(trajs[i])])
            /\ IF ~np_any(cond_vals')
               THEN /\ raised' = "ValueError"
                    /\ pc' = "raised"
                    /\ UNCHANGED <<first_condition_fullfilled, locVars>>
               ELSE /\ first_condition_fullfilled' =
                           FirstConditionFullfilled(cond_vals')
                    /\ first_frame_in_cond' = FirstFrameInCond(cond_vals')
                    /\ last_part_idx' =
                           FindPart(part_lens', first_frame_in_cond')
                    /\ first_frame_in_part' =
                           LocalFrame(part_lens', first_frame_in_cond',
                                      last_part_idx')
                    /\ slices' =
                           CutSlices(last_part_idx', first_frame_in_part')
                    /\ concat_trajs' = Prefix(trajs, last_part_idx' + 1)
                    /\ pc' = "concat"
                    /\ UNCHANGED <<raised, full_traj>>
    /\ UNCHANGED <<argVars, propVars, trajs>>

\* the positions at which a call waits for a permit or holds one
AtSemaphore == {"concat", "concat_running", "tp_concat", "tp_concat_running"}
HoldsPermit == pc \in {"concat_running", "tp_concat_running"}

\* what taking and returning a permit leaves alone
permitFrame == <<call, pc, max_steps, starting_configuration, continuation,
                 tpVars, opVars, evalVars, ctorVars, propVars, trajs,
                 cond_vals, first_condition_fullfilled, raised, cutVars>>

\* another call on the event loop enters its async with while this one is
\* at the semaphore
OtherAcquires ==
    /\ pc \in AtSemaphore
    /\ sem > 0
    /\ sem' = sem - 1
    /\ UNCHANGED permitFrame

\* another call on the event loop leaves its async with
OtherReleases ==
    /\ pc \in AtSemaphore
    /\ sem + (IF HoldsPermit THEN 1 ELSE 0) < MaxProcess
    /\ sem' = sem + 1
    /\ UNCHANGED permitFrame

\* async with _SEMAPHORES["MAX_PROCESS"]: the call waits until a permit is
\* free, takes it, hands concatenate to the thread pool and suspends
CutAcquire ==
    /\ pc = "concat"
    /\ sem > 0
    /\ sem' = sem - 1
    /\ pc' = "concat_running"
    /\ UNCHANGED <<call, max_steps, starting_configuration, continuation,
                   tpVars, opVars, evalVars, ctorVars, propVars, trajs,
                   cond_vals, first_condition_fullfilled, raised, cutVars>>

\* the thread ends, the call resumes and leaves the with blocks: the
\* permit goes back, and cut_and_concatenate returns the trajectory or
\* raises what concatenate raised because the output exists and overwrite
\* is false
CutConcatenate ==
    /\ pc = "concat_running"
    /\ sem' = sem + 1
    /\ \/ /\ full_traj' = Concatenate(concat_trajs, slices)
          /\ pc' = "cut_returned"
          /\ UNCHANGED raised
       \/ /\ raised' = "OutputExists"
          /\ pc' = "raised"
          /\ UNCHANGED full_traj
    /\ UNCHANGED <<call, max_steps, starting_configuration, continuation,
                   tpVars, opVars, evalVars, ctorVars, propVars, trajs,
                   cond_vals, first_condition_fullfilled, part_lens,
                   last_part_idx, first_frame_in_cond, first_frame_in_part,
                   slices, concat_trajs>>

Next ==
    \/ CheckStartingConfiguration
    \/ Prepare
    \/ GetAllTrajParts
    \/ EvaluateRecovered
    \/ PrepareFromFiles
    \/ RunWalltime
    \/ EvaluateSegment
    \/ RaiseMaxSteps
    \/ ReturnSegments
    \/ ChainCutAndConcatenate
    \/ CutLocate
    \/ CutAcquire
    \/ CutConcatenate
    \/ OtherAcquires
    \/ OtherReleases

Spec == Init /\ [][Next]_vars

\* the same calls with condition functions that break their contract: the
\* vectors they return are one entry shorter or longer than the trajectory
InitShape == (PropagateCalled \/ CutCalled) /\ shape_skew \in {-1, 1}

SpecShape == InitShape /\ [][Next]_vars

\* the positions at which condition functions are being evaluated: on the
\* starting configuration, on the recovered segments, on the segment the
\* engine returned, on the segments handed to cut_and_concatenate
Evaluating ==
    \/ pc \in {"propagate", "eval"}
    \/ (pc \in {"gather", "cut"} /\ trajs # <<>>)

\* a wrong evaluation: the error of a condition is caught and the
\* evaluation is made again
ConditionRaisesRetried ==
    /\ call \in {"propagate", "cut_and_concatenate"}
    /\ Evaluating
    /\ raised = "none"
    /\ raised' = "ConditionError"
    /\ UNCHANGED <<argVars, propVars, pc, trajs, cond_vals,
                   first_condition_fullfilled, cutVars>>

\* a condition callable raises while it is evaluated: nothing in
\* _condition_vals_for_traj, propagate, cut_and_concatenate or
\* propagate_and_concatenate catches the error, so the call ends with it
ConditionRaises ==
    /\ call \in {"propagate", "cut_and_concatenate"}
    /\ Evaluating
    /\ raised' = "ConditionError"
    /\ pc' = "raised"
    /\ UNCHANGED <<argVars, propVars, trajs, cond_vals,
                   first_condition_fullfilled, cutVars>>

NextRaise == Next \/ ConditionRaises

\* the calls with condition callables that may raise
SpecRaise == Init /\ [][NextRaise]_vars

\* the loop is entered, for as long as the code enters it: with a finite
\* max_steps the budget ends the run, so only the unbounded budget is cut
\* off at MaxRunFrames frames
RunWalltimeNext ==
    /\ pc = "loop"
    /\ LoopCondition
    /\ (max_steps # inf \/ TotalFrames(trajs) < MaxRunFrames)
    /\ \E n \in 1 .. MaxRunFrames :
         \E fr \in FramesOfLen(n) :
           traj' = [id |-> engine.parts + 1, frames |-> fr]
    /\ \E d \in 1 .. MaxDelta :
           engine' = [engine EXCEPT !.steps_done = @ + d, !.parts = @ + 1,
                                    !.runs = @ + 1]
    /\ pc' = "eval"
    /\ UNCHANGED <<argVars, trajs, cond_vals, any_cond_fullfilled,
                   step_counter, first_condition_fullfilled, ret, raised,
                   evaluated, cutVars>>

\* one call of propagate, from its first line to its return or raise
NextTerm ==
    \/ CheckStartingConfiguration
    \/ Prepare
    \/ GetAllTrajParts
    \/ EvaluateRecovered
    \/ PrepareFromFiles
    \/ RunWalltimeNext
    \/ EvaluateSegment
    \/ RaiseMaxSteps
    \/ ReturnSegments

\* every engine call and every condition call returns, and steps_done
\* grows with every segment: the call always takes its next step
SpecTerm == InitPropagate /\ [][NextTerm]_vars /\ WF_vars(NextTerm)

\* --------------------------- construct_TP_from_plus_and_minus_traj_segments
\* np.where of a boolean vector: the indices of its true entries, ascending
np_where1(v) ==
    SelectSeq([i \in 1 .. Len(v) |-> i - 1], LAMBDA i : v[i + 1])

\* np.min of a non-empty vector
np_min(s) ==
    CHOOSE x \in {s[i] : i \in 1 .. Len(s)} :
        \A i \in 1 .. Len(s) : x <= s[i]

\* state_funcs[state](t) for every t of a chain, as asyncio.gather returns it
StateVals(state, ts) == [i \in 1 .. Len(ts) |-> CondVal(state, ts[i])]

\* the Trajectory objects of a chain, named by chain and position
ChainTrajs(name, chain) ==
    [i \in 1 .. Len(chain) |-> [id |-> <<name, i - 1>>, frames |-> chain[i]]]

\* the chains on which only condition c is looked at: it holds or not
StateChains(c) == ChainsOver({{}, {c}}, MaxFrames)

\* the chains of the join with segment lengths [5, 3] and [4]
ExampleMinus(c) == << <<{}, {}, {c}, {}, {}>>, <<{}, {c}, {}>> >>
ExamplePlus(c) == << <<{}, {c}, {}, {c}>> >>

\* wrong minus slices: the part holding the state is read in full
MinusSlicesFull(last_idx, first_in_part) ==
    << <<-1, None, -1>> >> \o [i \in 1 .. last_idx |-> <<-1, None, -1>>]

\* wrong minus slices: the minus segments are read forward
MinusSlicesForward(last_idx, first_in_part) ==
    << <<0, first_in_part + 1, 1>> >>
    \o [i \in 1 .. last_idx |-> <<0, None, 1>>]

\* the slices of the minus part, backwards from the frame in the state
MinusSlices(last_idx, first_in_part) ==
    << <<first_in_part, None, -1>> >>
    \o [i \in 1 .. last_idx |-> <<-1, None, -1>>]

\* wrong minus trajectories: in the order they were produced
MinusTrajsAscending(ts, last_idx) == [i \in 1 .. (last_idx + 1) |-> ts[i]]

\* the trajectories of the minus part: last_idx, last_idx - 1, ..., 0
MinusTrajs(ts, last_idx) ==
    [i \in 1 .. (last_idx + 1) |-> ts[last_idx + 2 - i]]

\* wrong plus slices: the starting configuration is read again
PlusSlicesFromZero(last_idx, first_in_part) ==
    IF last_idx > 0
    THEN << <<0, None, 1>> >>
         \o [i \in 1 .. (last_idx - 1) |-> <<0, None, 1>>]
         \o << <<0, first_in_part + 1, 1>> >>
    ELSE << <<0, first_in_part + 1, 1>> >>

\* wrong plus slices: the last slice stops before the frame in the state
PlusSlicesExclusiveStop(last_idx, first_in_part) ==
    IF last_idx > 0
    THEN << <<1, None, 1>> >>
         \o [i \in 1 .. (last_idx - 1) |-> <<0, None, 1>>]
         \o << <<0, first_in_part, 1>> >>
    ELSE << <<1, first_in_part, 1>> >>

\* the slices of the plus part, without the starting configuration
PlusSlices(last_idx, first_in_part) ==
    IF last_idx > 0
    THEN << <<1, None, 1>> >>
         \o [i \in 1 .. (last_idx - 1) |-> <<0, None, 1>>]
         \o << <<0, first_in_part + 1, 1>> >>
    ELSE << <<1, first_in_part + 1, 1>> >>

\* the trajectories of the plus part: 0, 1, ..., last_idx
PlusTrajs(ts, last_idx) == [i \in 1 .. (last_idx + 1) |-> ts[i]]

\* what construct_TP_... leaves alone
notTPNoSemVars == <<call, max_steps, starting_configuration, continuation,
                    engine, traj, trajs, cond_vals, any_cond_fullfilled,
                    step_counter, first_condition_fullfilled, ret, evaluated,
                    first_frame_in_cond, first_frame_in_part, opVars,
                    evalVars, ctorVars>>
notTPVars == <<notTPNoSemVars, sem>>

\* construct_TP_from_plus_and_minus_traj_segments is called on two chains
InitTP ==
    /\ call = "construct_TP"
    /\ pc = "tp_minus"
    /\ max_steps = inf
    /\ starting_configuration = NoTraj
    /\ continuation = FALSE
    /\ trajs = <<>>
    /\ \E ms \in {0, NumConds - 1} :
          /\ minus_state = ms
          /\ plus_state = NumConds - 1 - ms
    /\ \E ch \in StateChains(minus_state) \cup {ExampleMinus(minus_state)} :
          minus_trajs = ChainTrajs("minus", ch)
    /\ \E ch \in StateChains(plus_state) \cup {ExamplePlus(plus_state)} :
          plus_trajs = ChainTrajs("plus", ch)
    /\ NoOtherOps
    /\ WrappedConditions
    /\ ShapesMatch
    /\ Constructed
    /\ InitLocals

\* the minus part of the plan; np.concatenate of no arrays and np.min of no
\* frames raise ValueError
TPMinus ==
    /\ pc = "tp_minus"
    /\ IF minus_trajs = <<>>
       THEN /\ minus_state_vals' = <<>>
            /\ part_lens' = <<>>
            /\ raised' = "ValueError"
            /\ pc' = "raised"
            /\ UNCHANGED <<first_frame_in_minus, last_part_idx, slices,
                           concat_trajs>>
       ELSE /\ part_lens' = [i \in 1 .. Len(minus_trajs) |->
                                Len(StateVals(minus_state, minus_trajs)[i])]
            /\ minus_state_vals' = Flatten(StateVals(minus_state, minus_trajs))
            /\ IF np_where1(minus_state_vals') = <<>>
               THEN /\ raised' = "ValueError"
                    /\ pc' = "raised"
                    /\ UNCHANGED <<first_frame_in_minus, last_part_idx,
                                   slices, concat_trajs>>
               ELSE /\ first_frame_in_minus' =
                           np_min(np_where1(minus_state_vals'))
                    /\ last_part_idx' =
                           FindPart(part_lens', first_frame_in_minus')
                    /\ slices' =
                           MinusSlices(last_part_idx',
                                       LocalFrame(part_lens',
                                                  first_frame_in_minus',
                                                  last_part_idx'))
                    /\ concat_trajs' = MinusTrajs(minus_trajs, last_part_idx')
                    /\ pc' = "tp_plus"
                    /\ UNCHANGED raised
    /\ UNCHANGED <<notTPVars, tpArgs, plus_state_vals, first_frame_in_plus,
                   full_traj>>

\* the plus part of the plan, appended to the minus part
TPPlus ==
    /\ pc = "tp_plus"
    /\ IF plus_trajs = <<>>
       THEN /\ plus_state_vals' = <<>>
            /\ part_lens' = <<>>
            /\ raised' = "ValueError"
            /\ pc' = "raised"
            /\ UNCHANGED <<first_frame_in_plus, last_part_idx, slices,
                           concat_trajs>>
       ELSE /\ part_lens' = [i \in 1 .. Len(plus_trajs) |->
                                Len(StateVals(plus_state, plus_trajs)[i])]
            /\ plus_state_vals' = Flatten(StateVals(plus_state, plus_trajs))
            /\ IF np_where1(plus_state_vals') = <<>>
               THEN /\ raised' = "ValueError"
                    /\ pc' = "raised"
                    /\ UNCHANGED <<first_frame_in_plus, last_part_idx, slices,
                                   concat_trajs>>
               ELSE /\ first_frame_in_plus' =
                           np_min(np_where1(plus_state_vals'))
                    /\ last_part_idx' =
                           FindPart(part_lens', first_frame_in_plus')
                    /\ slices' = slices \o
                           PlusSlices(last_part_idx',
                                      LocalFrame(part_lens',
                                                 first_frame_in_plus',
                                                 last_part_idx'))
                    /\ concat_trajs' = concat_trajs \o
                           PlusTrajs(plus_trajs, last_part_idx')
                    /\ pc' = "tp_concat"
                    /\ UNCHANGED raised
    /\ UNCHANGED <<notTPVars, tpArgs, minus_state_vals, first_frame_in_minus,
                   full_traj>>

\* async with _SEMAPHORES["MAX_PROCESS"]: the call waits until a permit is
\* free, takes it, hands concatenate to the thread pool and suspends
TPAcquire ==
    /\ pc = "tp_concat"
    /\ sem > 0
    /\ sem' = sem - 1
    /\ pc' = "tp_concat_running"
    /\ UNCHANGED <<notTPNoSemVars, tpVars, raised, part_lens, last_part_idx,
                   slices, concat_trajs, full_traj>>

\* the thread ends, the call resumes and leaves the with blocks: the
\* permit goes back, and the path is returned or what concatenate raised
\* because the output exists and overwrite is false is raised
TPConcatenate ==
    /\ pc = "tp_concat_running"
    /\ sem' = sem + 1
    /\ \/ /\ full_traj' = Concatenate(concat_trajs, slices)
          /\ pc' = "tp_returned"
          /\ UNCHANGED raised
       \/ /\ raised' = "OutputExists"
          /\ pc' = "raised"
          /\ UNCHANGED full_traj
    /\ UNCHANGED <<notTPNoSemVars, tpVars, part_lens, last_part_idx,
                   slices, concat_trajs>>

NextTP ==
    \/ TPMinus
    \/ TPPlus
    \/ TPAcquire
    \/ TPConcatenate
    \/ OtherAcquires
    \/ OtherReleases

SpecTP == InitTP /\ [][NextTP]_vars

\* ------------------------------------------- stitching under the semaphore
\* what the stitch operations and the evaluator leave alone
callVars == <<call, pc, max_steps, starting_configuration, continuation>>
dataVars == <<engine, trajs, any_cond_fullfilled, step_counter,
              first_condition_fullfilled, ret, raised, evaluated, cutVars,
              tpVars, ctorVars>>

StitchCalls == {"cut_and_concatenate", "construct_TP"}

\* NumOps calls of cut_and_concatenate and construct_TP_... were launched
\* and share the semaphore
InitSem ==
    /\ call = "stitch"
    /\ pc = "ops"
    /\ max_steps = inf
    /\ starting_configuration = NoTraj
    /\ continuation = FALSE
    /\ trajs = <<>>
    /\ NoTPArgs
    /\ WrappedConditions
    /\ Constructed
    /\ ShapesMatch
    /\ InitLocals
    /\ SemaphoreFree
    /\ op_kind \in [Ops -> StitchCalls]
    /\ op_pc = [p \in Ops |-> "plan"]
    /\ op_raised = [p \in Ops |-> "none"]

\* the operation builds its plan and reaches the semaphore, or numpy
\* raises ValueError because no frame is in a condition
OpPlan(p) ==
    /\ op_pc[p] = "plan"
    /\ \/ /\ op_pc' = [op_pc EXCEPT ![p] = "wait"]
          /\ UNCHANGED op_raised
       \/ /\ op_pc' = [op_pc EXCEPT ![p] = "failed"]
          /\ op_raised' = [op_raised EXCEPT ![p] = "ValueError"]
    /\ UNCHANGED <<callVars, dataVars, evalVars, traj, cond_vals, sem,
                   op_kind>>

\* a wrong entry: the stitcher is started without a permit
OpAcquireNoWait(p) ==
    /\ op_pc[p] = "wait"
    /\ sem' = sem - 1
    /\ op_pc' = [op_pc EXCEPT ![p] = "running"]
    /\ UNCHANGED <<callVars, dataVars, evalVars, traj, cond_vals, op_kind,
                   op_raised>>

\* async with _SEMAPHORES["MAX_PROCESS"]: a permit is taken when one is
\* free, and concatenate is handed to the thread pool
OpAcquire(p) ==
    /\ op_pc[p] = "wait"
    /\ sem > 0
    /\ sem' = sem - 1
    /\ op_pc' = [op_pc EXCEPT ![p] = "running"]
    /\ UNCHANGED <<callVars, dataVars, evalVars, traj, cond_vals, op_kind,
                   op_raised>>

\* concatenate ends in its thread: it returns the trajectory, or raises
\* because the output exists and overwrite is false
OpConcatEnds(p) ==
    /\ op_pc[p] = "running"
    /\ op_pc' = [op_pc EXCEPT ![p] = "ended"]
    /\ \E e \in {"none", "OutputExists"} :
           op_raised' = [op_raised EXCEPT ![p] = e]
    /\ UNCHANGED <<callVars, dataVars, evalVars, traj, cond_vals, sem,
                   op_kind>>

\* a wrong exit: the permit goes back only when concatenate returned
OpReleaseOnSuccess(p) ==
    /\ op_pc[p] = "ended"
    /\ sem' = IF op_raised[p] = "none" THEN sem + 1 ELSE sem
    /\ op_pc' = [op_pc EXCEPT ![p] =
                    IF op_raised[p] = "none" THEN "returned" ELSE "failed"]
    /\ UNCHANGED <<callVars, dataVars, evalVars, traj, cond_vals, op_kind,
                   op_raised>>

\* the operation resumes: the with blocks are left, the permit goes back,
\* and the operation returns or raises what concatenate raised
OpRelease(p) ==
    /\ op_pc[p] = "ended"
    /\ sem' = sem + 1
    /\ op_pc' = [op_pc EXCEPT ![p] =
                    IF op_raised[p] = "none" THEN "returned" ELSE "failed"]
    /\ UNCHANGED <<callVars, dataVars, evalVars, traj, cond_vals, op_kind,
                   op_raised>>

NextSem ==
    \E p \in Ops : OpPlan(p) \/ OpAcquire(p) \/ OpConcatEnds(p) \/ OpRelease(p)

SpecSem == InitSem /\ [][NextSem]_vars

\* the event loop runs every task that can run, the semaphore wakes a
\* waiter when a permit is free, and every thread started ends
SpecSemFair ==
    /\ InitSem
    /\ [][NextSem]_vars
    /\ \A p \in Ops : /\ WF_vars(OpPlan(p))
                       /\ WF_vars(OpAcquire(p))
                       /\ WF_vars(OpConcatEnds(p))
                       /\ WF_vars(OpRelease(p))

\* ------------------------------------------------- _condition_vals_for_traj
EvalConds == 0 .. (NumEvalConds - 1)

\* the positions, in the condition list, of the coroutine functions
Coroutines == {c \in EvalConds : is_coroutine[c + 1]}

\* a wrong gather: results are kept in the order of completion
GatherSlotByCompletion(c, n_done) == n_done + 1

\* the conditions whose coroutines were created and handed to gather
Gathered == pending \cup {completed[i] : i \in 1 .. Len(completed)}

\* asyncio.gather: the result of an awaitable goes to the position the
\* awaitable has among the awaitables gathered
GatherSlot(c, n_done) == Cardinality({d \in Gathered : d <= c})

\* the loop that pieces the results together: coro_res.pop(0) for a
\* coroutine function, c(traj) for any other
RECURSIVE PieceTogether(_, _, _)
PieceTogether(c, res, t) ==
    IF c = NumEvalConds THEN <<>>
    ELSE IF is_coroutine[c + 1]
         THEN <<Head(res)>> \o PieceTogether(c + 1, Tail(res), t)
         ELSE <<CondVal(c, t)>> \o PieceTogether(c + 1, res, t)

\* _condition_vals_for_traj is called on a trajectory of one frame
InitEval ==
    /\ call = "_condition_vals_for_traj"
    /\ pc = "condition_vals"
    /\ max_steps = inf
    /\ starting_configuration = NoTraj
    /\ continuation = FALSE
    /\ trajs = <<>>
    /\ NoTPArgs
    /\ NoOtherOps
    /\ Constructed
    /\ ShapesMatch
    /\ InitCallLocals
    /\ traj \in { [id |-> 1, frames |-> <<fr>>] : fr \in SUBSET EvalConds }
    /\ is_coroutine \in [1 .. NumEvalConds -> BOOLEAN]
    /\ pending = {}
    /\ coro_res = <<>>
    /\ completed = <<>>

\* the call up to its await: without a coroutine function every condition
\* is applied in list order and the call returns; otherwise the coroutines
\* of the coroutine functions are created and gathered, at line 565 when
\* every function is a coroutine function and at line 575 when not
EvalStart ==
    /\ pc = "condition_vals"
    /\ IF Coroutines = {}
       THEN /\ cond_vals' = [k \in 1 .. NumEvalConds |-> CondVal(k - 1, traj)]
            /\ pc' = "vals_returned"
            /\ UNCHANGED <<pending, coro_res>>
       ELSE /\ pending' = Coroutines
            /\ coro_res' = [k \in 1 .. Cardinality(Coroutines) |-> None]
            /\ pc' = IF Coroutines = EvalConds THEN "gather"
                      ELSE "gather_coros"
            /\ UNCHANGED cond_vals
    /\ UNCHANGED <<call, max_steps, starting_configuration, continuation,
                   dataVars, semVars, traj, is_coroutine, completed>>

\* one of the gathered coroutines completes, in any order
CoroutineCompletes ==
    /\ pc \in {"gather", "gather_coros"}
    /\ \E c \in pending :
          /\ coro_res' = [coro_res EXCEPT
                             ![GatherSlot(c, Len(completed))] =
                                 CondVal(c, traj)]
          /\ pending' = pending \ {c}
          /\ completed' = Append(completed, c)
    /\ UNCHANGED <<callVars, dataVars, semVars, traj, cond_vals,
                   is_coroutine>>

\* the conditions setter, run by another task while the call is suspended
\* in gather: the flags are computed anew from the functions it is given
SetConditions ==
    /\ call = "_condition_vals_for_traj"
    /\ pc \in {"gather", "gather_coros"}
    /\ is_coroutine' \in [1 .. NumEvalConds -> BOOLEAN] \ {is_coroutine}
    /\ UNCHANGED <<callVars, dataVars, semVars, traj, cond_vals, pending,
                   coro_res, completed>>

\* gather returns. At line 565 its list is the result. At line 575 the
\* results are pieced together with the flags as they are now: every
\* coroutine flag pops the head of the list, popping from the empty list
\* raises IndexError, and what was not popped stays in the list
EvalReturn ==
    /\ pc \in {"gather", "gather_coros"}
    /\ pending = {}
    /\ IF pc = "gather"
       THEN /\ cond_vals' = coro_res
            /\ pc' = "vals_returned"
            /\ UNCHANGED <<coro_res, raised>>
       ELSE IF Cardinality(Coroutines) > Len(coro_res)
            THEN /\ coro_res' = <<>>
                 /\ raised' = "IndexError"
                 /\ pc' = "raised"
                 /\ UNCHANGED cond_vals
            ELSE /\ cond_vals' = PieceTogether(0, coro_res, traj)
                 /\ coro_res' = SubSeq(coro_res, Cardinality(Coroutines) + 1,
                                       Len(coro_res))
                 /\ pc' = "vals_returned"
                 /\ UNCHANGED raised
    /\ UNCHANGED <<call, max_steps, starting_configuration, continuation,
                   engine, trajs, any_cond_fullfilled, step_counter,
                   first_condition_fullfilled, ret, evaluated, cutVars,
                   tpVars, ctorVars, semVars, traj, is_coroutine, pending,
                   completed>>

NextEval == EvalStart \/ CoroutineCompletes \/ SetConditions \/ EvalReturn

SpecEval == InitEval /\ [][NextEval]_vars

\* ------------------------------------------------------ __init__ followed
CtorBudgets == {None} \cup (0 .. MaxArg)

\* __init__ is called with max_steps and max_frames, each given or None;
\* nstout is what nstout_from_mdconfig finds in the engine's mdconfig
InitCtor ==
    /\ call = "__init__"
    /\ pc = "init"
    /\ ctor_args \in [max_steps : CtorBudgets, max_frames : CtorBudgets,
                       nstout : 1 .. MaxNstout]
    /\ max_steps = None
    /\ starting_configuration = NoTraj
    /\ continuation = FALSE
    /\ trajs = <<>>
    /\ NoTPArgs
    /\ NoOtherOps
    /\ WrappedConditions
    /\ ShapesMatch
    /\ InitLocals

\* the constructor sorts out whether max_frames or max_steps is used
SortOutMaxSteps ==
    /\ pc = "init"
    /\ max_steps' = ResolveMaxSteps(ctor_args.max_steps,
                                    ctor_args.max_frames, ctor_args.nstout)
    /\ pc' = "constructed"
    /\ UNCHANGED <<call, starting_configuration, continuation, dataVars,
                   semVars, evalVars, traj, cond_vals>>

NextCtor == SortOutMaxSteps

SpecInit == InitCtor /\ [][NextCtor]_vars

\* ------------------------------------------------- what the claims speak of
\* the frames of a segment list along its concatenated frame axis
AllFrames(ts) == Flatten([i \in 1 .. Len(ts) |-> ts[i].frames])

\* some condition holds on some frame of the list
HasTrue(ts) == \E g \in 1 .. Len(AllFrames(ts)) : AllFrames(ts)[g] # {}

\* the global index of the first frame on which any condition holds
FirstTrueGlobal(ts) ==
    CHOOSE g \in 0 .. (Len(AllFrames(ts)) - 1) :
        /\ AllFrames(ts)[g + 1] # {}
        /\ \A h \in 0 .. (g - 1) : AllFrames(ts)[h + 1] = {}

\* the conditions that hold on the first frame on which any holds
CondsAtFirstTrue(ts) == AllFrames(ts)[FirstTrueGlobal(ts) + 1]

LowestOf(S) == CHOOSE c \in S : \A d \in S : c <= d

\* the global index of the first frame of a chain on which condition c holds
FirstTrueOf(ts, c) ==
    CHOOSE g \in 0 .. (Len(AllFrames(ts)) - 1) :
        /\ c \in AllFrames(ts)[g + 1]
        /\ \A h \in 0 .. (g - 1) : c \notin AllFrames(ts)[h + 1]

\* how often a frame is in a stitched trajectory
Occurrences(path, fr) == Cardinality({i \in 1 .. Len(path) : path[i] = fr})

PartLens(ts) == [i \in 1 .. Len(ts) |-> Len(ts[i].frames)]

\* cut_and_concatenate has located the frame and built its plan
Located == pc \in {"concat", "concat_running", "cut_returned"}

\* ----------------------------------------------------------------- claims
\* C1: with a finite max_steps, once the engine's steps_done is past
\* max_steps and no condition has held on the starting configuration or on
\* any recovered or produced segment, propagate has returned nothing, is in
\* its loop or has raised, the only step it takes from the loop head is to
\* raise MaxStepsReachedError, and that is the error it ends with.
C1BudgetPassed ==
    /\ call = "propagate"
    /\ max_steps # inf
    /\ engine.prepared # "no"
    /\ engine.steps_done > max_steps
    /\ ~HasTrue(<<starting_configuration>> \o trajs \o <<traj>>)

C1_StepBudget ==
    /\ [](C1BudgetPassed =>
            /\ ret = <<>>
            /\ pc \in {"eval", "loop", "raised"}
            /\ (pc = "raised" => raised = "MaxStepsReachedError"))
    /\ [][(C1BudgetPassed /\ pc = "loop") =>
            (pc' = "raised" /\ raised' = "MaxStepsReachedError"
             /\ ret' = <<>>)]_vars

C1_Witness ==
    /\ raised = "MaxStepsReachedError"
    /\ max_steps # inf
    /\ engine.runs >= 2
    /\ ret = <<>>

\* C2: the locator of cut_and_concatenate finds the smallest global frame
\* index on which any condition holds, and its address is a valid segment
\* index and a frame index inside that segment which add up to the global
\* index again.
C2_Locator ==
    Located =>
        /\ first_frame_in_cond = FirstTrueGlobal(trajs)
        /\ last_part_idx \in 0 .. (Len(trajs) - 1)
        /\ first_frame_in_part >= 0
        /\ first_frame_in_part < Len(trajs[last_part_idx + 1].frames)
        /\ TotalFrames(Prefix(trajs, last_part_idx)) + first_frame_in_part
               = first_frame_in_cond

C2_Witness ==
    /\ pc = "concat"
    /\ last_part_idx > 0
    /\ first_frame_in_part > 0
    /\ HasTrue(Prefix(trajs, last_part_idx + 1))

\* C3: when two or more conditions hold on the first frame on which any
\* holds, propagate and cut_and_concatenate both report the lowest of
\* their indices.
C3_LowestIndexWins ==
    /\ (ret # <<>> /\ Cardinality(CondsAtFirstTrue(ret[1])) >= 2)
           => ret[2] = LowestOf(CondsAtFirstTrue(ret[1]))
    /\ (Located /\ Cardinality(CondsAtFirstTrue(trajs)) >= 2)
           => first_condition_fullfilled = LowestOf(CondsAtFirstTrue(trajs))

C3_Witness ==
    /\ pc = "cut_returned"
    /\ call = "propagate"
    /\ engine.runs >= 1
    /\ Cardinality(CondsAtFirstTrue(trajs)) >= 2
    /\ first_condition_fullfilled = ret[2]

\* C4: the frames the joined plan selects hold the shared starting
\* configuration exactly once: frame 0 of minus segment 0 is selected, once,
\* and frame 0 of plus segment 0 is not selected.
C4_SharedStartOnce ==
    pc = "tp_returned" =>
        /\ Occurrences(full_traj, << <<"minus", 0>>, 0 >>) = 1
        /\ Occurrences(full_traj, << <<"plus", 0>>, 0 >>) = 0

C4_Witness ==
    /\ pc = "tp_returned"
    /\ Len(minus_trajs) >= 2
    /\ first_frame_in_minus >= Len(minus_trajs[1].frames)
    /\ Len(plus_trajs) >= 2
    /\ first_frame_in_plus >= Len(plus_trajs[1].frames)
    /\ Occurrences(full_traj, << <<"minus", 0>>, 0 >>) = 1

\* C5: the joined plan selects (g_minus + 1) + g_plus frames, g_minus and
\* g_plus the global indices of the first frame of each chain in its named
\* state; for a minus chain of lengths [5, 3] first in its state at global
\* frame 2 and a plus chain [4] first in its state at frame 1 that is 4.
C5_JoinLength ==
    pc = "tp_returned" =>
        /\ Len(full_traj) = (FirstTrueOf(minus_trajs, minus_state) + 1)
                               + FirstTrueOf(plus_trajs, plus_state)
        /\ (/\ PartLens(minus_trajs) = <<5, 3>>
            /\ FirstTrueOf(minus_trajs, minus_state) = 2
            /\ PartLens(plus_trajs) = <<4>>
            /\ FirstTrueOf(plus_trajs, plus_state) = 1)
               => Len(full_traj) = 4

C5_Witness ==
    /\ pc = "tp_returned"
    /\ PartLens(minus_trajs) = <<5, 3>>
    /\ first_frame_in_minus = 2
    /\ PartLens(plus_trajs) = <<4>>
    /\ first_frame_in_plus = 1
    /\ Len(full_traj) = 4

\* C6: the frames the single-direction plan selects are exactly g + 1, g the
\* global index of the first frame on which any condition holds; for one
\* segment with the first such frame at local frame k that is k + 1 frames.
C6_CutLength ==
    pc = "cut_returned" =>
        /\ Len(full_traj) = FirstTrueGlobal(trajs) + 1
        /\ (Len(trajs) = 1 => Len(full_traj) = first_frame_in_part + 1)

C6_Witness ==
    /\ pc = "cut_returned"
    /\ Len(trajs) = 1
    /\ first_frame_in_part >= 1
    /\ Len(full_traj) = first_frame_in_part + 1

\* the stitch operations whose concatenate call is running in its thread
Running == {p \in Ops : op_pc[p] = "running"}

\* C7: however many stitch operations (cut_and_concatenate and
\* construct_TP_from_plus_and_minus_traj_segments) are launched together,
\* the number of stitcher concatenate calls running at the same time is
\* never more than the capacity of the MAX_PROCESS semaphore.
C7_ConcurrencyCap ==
    call = "stitch" => Cardinality(Running) <= MaxProcess

C7_Witness ==
    /\ call = "stitch"
    /\ Cardinality(Running) = MaxProcess
    /\ \E p \in Ops : op_pc[p] = "wait"
    /\ \E p, q \in Running : op_kind[p] # op_kind[q]

\* the same of every return, also when another task assigned to conditions
\* while the call was suspended in gather: then the piecing loop reads the
\* new flags, and a result can be put at the position of another condition
ResultOrderUnderReassignment ==
    (call = "_condition_vals_for_traj" /\ pc = "vals_returned") =>
        /\ Len(cond_vals) = NumEvalConds
        /\ \A c \in EvalConds : cond_vals[c + 1] = CondVal(c, traj)

\* C8: for any mix of synchronous and asynchronous conditions and any order
\* in which the asynchronous ones complete, _condition_vals_for_traj returns
\* one result per condition, and the result at position i is the result of
\* condition i. The conditions are those of the call: the flags the piecing
\* loop reads are the flags the coroutines were created from.
C8_ResultOrder ==
    (call = "_condition_vals_for_traj" /\ pc = "vals_returned"
     /\ (Gathered = EvalConds \/ Coroutines = Gathered)) =>
        /\ Len(cond_vals) = NumEvalConds
        /\ \A c \in EvalConds : cond_vals[c + 1] = CondVal(c, traj)

C8_Witness ==
    /\ call = "_condition_vals_for_traj"
    /\ pc = "vals_returned"
    /\ Coroutines # {} /\ Coroutines # EvalConds
    /\ Coroutines = Gathered
    /\ Len(completed) >= 2
    /\ completed[1] > completed[2]
    /\ CondVal(completed[1], traj) # CondVal(completed[2], traj)
    /\ Len(cond_vals) = NumEvalConds

\* C9: the segments of a propagate run are in its list in the order the
\* engine produced them, and whenever the engine is asked for a segment the
\* conditions have been evaluated on every segment it produced before.
C9_OrderedProduction ==
    call = "propagate" =>
        /\ \A i \in 1 .. Len(trajs) :
               trajs[i].id # 0 => trajs[i].id = i
        /\ IF pc = "eval"
           THEN /\ engine.runs = evaluated + 1
                /\ traj.id = Len(trajs) + 1
           ELSE engine.runs = evaluated

C9_Witness ==
    /\ call = "propagate"
    /\ pc = "eval"
    /\ engine.runs = 2
    /\ evaluated = 1
    /\ Len(trajs) = 1

\* C10: when a condition holds on the starting configuration, propagate,
\* with or without continuation, returns the list holding only the starting
\* configuration and the lowest condition index that holds on its first
\* frame in a condition, and no engine was constructed, prepared or run.
\* propagate itself never raises then; the stitcher of a
\* propagate_and_concatenate that follows may find its output existing.
C10_StartAlreadyInCondition ==
    (call = "propagate" /\ pc # "propagate"
     /\ HasTrue(<<starting_configuration>>))
        => /\ ret = << <<starting_configuration>>,
                       LowestOf(CondsAtFirstTrue(<<starting_configuration>>)) >>
           /\ engine = NoEngine
           /\ raised \in {"none", "OutputExists"}

C10_Witness ==
    /\ pc = "returned"
    /\ continuation
    /\ Len(starting_configuration.frames) = 2
    /\ starting_configuration.frames[1] = {}
    /\ Cardinality(starting_configuration.frames[2]) = 2
    /\ ret = << <<starting_configuration>>, 0 >>
    /\ engine = NoEngine

\* C11: in continuation mode, when no condition holds on the starting
\* configuration but one holds on a recovered segment, propagate returns
\* the recovered segment list as it is and the lowest condition index on
\* the first true frame over all recovered segments, and the engine is
\* neither prepared from the files nor asked for a segment, then or later.
C11_RecoveredConditionMet ==
    /\ [][(call = "propagate" /\ continuation /\ pc = "gather"
           /\ HasTrue(trajs)) =>
            (/\ pc' = "returned"
             /\ ret' = <<trajs, LowestOf(CondsAtFirstTrue(trajs))>>
             /\ trajs' = trajs
             /\ engine'.prepared = "no"
             /\ engine'.runs = 0)]_vars
    /\ [][(call = "propagate" /\ pc = "returned"
           /\ engine.prepared = "no") =>
            (engine' = engine /\ ret' = ret /\ trajs' = trajs)]_vars

C11_Witness ==
    /\ call = "propagate"
    /\ continuation
    /\ pc = "returned"
    /\ ~HasTrue(<<starting_configuration>>)
    /\ engine.constructed
    /\ engine.prepared = "no"
    /\ engine.runs = 0
    /\ Len(trajs) = 2
    /\ FirstTrueGlobal(trajs) = 1
    /\ ret = <<trajs, 1>>

\* C12: in every segment list propagate returns, from a fresh start or a
\* continuation, the first frame on which any condition holds lies in the
\* last entry: no condition holds on any frame of an earlier entry.
C12_FirstTrueInLastEntry ==
    (call = "propagate" /\ ret # <<>>) =>
        /\ HasTrue(<<ret[1][Len(ret[1])]>>)
        /\ ~HasTrue(Prefix(ret[1], Len(ret[1]) - 1))

\* C13: when the conditions return vectors whose length differs from the
\* frame count of the trajectory they were evaluated on, propagate returns
\* no result and cut_and_concatenate builds no slice plan and stitches
\* nothing: the call ends in an error at the first such evaluation.
C13_ShapeMismatchSurfaces ==
    (shape_skew # 0) =>
        /\ ret = <<>>
        /\ slices = <<>>
        /\ full_traj = <<>>
        /\ engine.runs = 0
        /\ pc \in {"propagate", "cut", "raised"}

\* C14: when a condition callable raises during evaluation, the call of
\* propagate, cut_and_concatenate or propagate_and_concatenate ends with
\* that error: the step that raises asks the engine for nothing and
\* returns nothing, no slice plan is stitched, and afterwards nothing is
\* evaluated again, requested from the engine or stitched.
C14_ConditionErrorAborts ==
    /\ [](raised = "ConditionError" => (pc = "raised" /\ full_traj = <<>>))
    /\ [][(raised # "ConditionError" /\ raised' = "ConditionError") =>
            (/\ engine' = engine
             /\ trajs' = trajs
             /\ ret' = ret
             /\ evaluated' = evaluated
             /\ slices' = slices)]_vars
    /\ [][raised = "ConditionError" => UNCHANGED vars]_vars

C14_Witness ==
    /\ raised = "ConditionError"
    /\ pc = "raised"
    /\ engine.runs = 2
    /\ evaluated = 1
    /\ Len(trajs) = 1
    /\ ret = <<>>

\* the <<trajectory id, frame index>> of global frame g of a chain
RECURSIVE FrameAtFrom(_, _, _)
FrameAtFrom(ts, g, i) ==
    IF g < Len(ts[i].frames) THEN <<ts[i].id, g>>
    ELSE FrameAtFrom(ts, g - Len(ts[i].frames), i + 1)

FrameAt(ts, g) == FrameAtFrom(ts, g, 1)

\* C15 as it was stated: in the two-direction join the minus chain is read
\* with reversed stride so that the frame the minus chain produced last
\* becomes the first frame of the joined output.
C15_LastProducedFrameFirst ==
    pc = "tp_returned" =>
        full_traj[1] = FrameAt(minus_trajs, TotalFrames(minus_trajs) - 1)

\* C15: in the two-direction join the minus chain is read with reversed
\* stride from its first frame in the minus state back to the shared
\* start: that first frame in state, which is the chain's last-produced
\* frame only when the chain ends on it, is the first frame of the joined
\* output, each following output frame is the chain frame produced just
\* before, and the shared start ends the minus part.
C15_ReversedMinusRead ==
    pc = "tp_returned" =>
        LET g == FirstTrueOf(minus_trajs, minus_state)
        IN /\ Len(full_traj) >= g + 1
           /\ \A i \in 1 .. (g + 1) :
                  full_traj[i] = FrameAt(minus_trajs, g + 1 - i)

C15_Witness ==
    /\ pc = "tp_returned"
    /\ PartLens(minus_trajs) = <<5, 3>>
    /\ first_frame_in_minus = 2
    /\ full_traj[1] = << <<"minus", 0>>, 2 >>
    /\ full_traj[2] = << <<"minus", 0>>, 1 >>
    /\ full_traj[3] = << <<"minus", 0>>, 0 >>
    /\ full_traj[1] # FrameAt(minus_trajs, TotalFrames(minus_trajs) - 1)

\* C16: the step budget max_steps resolved at construction is the given
\* max_steps when one is given, also when max_frames is given too; else
\* max_frames times the output frequency nstout when max_frames is given;
\* else infinity.
C16_BudgetResolution ==
    (call = "__init__" /\ pc = "constructed") =>
        /\ (ctor_args.max_steps # None => max_steps = ctor_args.max_steps)
        /\ (ctor_args.max_steps = None /\ ctor_args.max_frames # None)
               => max_steps = ctor_args.max_frames * ctor_args.nstout
        /\ (ctor_args.max_steps = None /\ ctor_args.max_frames = None)
               => max_steps = inf

C16_Witness ==
    /\ call = "__init__"
    /\ pc = "constructed"
    /\ ctor_args.max_steps = 1
    /\ ctor_args.max_frames = 2
    /\ ctor_args.nstout = 3
    /\ max_steps = 1

\* C17: in the stepping loop the engine is asked for another segment only
\* while no condition has held and the step counter is not greater than
\* max_steps; with a counter equal to max_steps the loop goes on, any step
\* from its head being a request for the next segment; and
\* MaxStepsReachedError is raised only where no condition has held and the
\* step counter is strictly greater than max_steps.
C17_SteppingBoundary ==
    /\ [][(call = "propagate" /\ engine'.runs = engine.runs + 1) =>
            (/\ pc = "loop"
             /\ ~any_cond_fullfilled
             /\ (max_steps = inf \/ step_counter <= max_steps))]_vars
    /\ [][(call = "propagate" /\ pc = "loop" /\ ~any_cond_fullfilled
           /\ step_counter = max_steps) =>
            (pc' = "eval" /\ engine'.runs = engine.runs + 1
             /\ raised' = "none")]_vars
    /\ [](raised = "MaxStepsReachedError" =>
            (/\ ~any_cond_fullfilled
             /\ max_steps # inf
             /\ step_counter > max_steps
             /\ ret = <<>>))

C17_Witness ==
    /\ call = "propagate"
    /\ pc = "eval"
    /\ engine.runs = 2
    /\ max_steps = 1
    /\ step_counter = max_steps
    /\ ~any_cond_fullfilled

\* C18: for the address (last_part_idx, first_frame_in_part) the plan of
\* cut_and_concatenate has one full-range stride +1 slice for each segment
\* before last_part_idx, in ascending order, then one slice of segment
\* last_part_idx from frame 0 through first_frame_in_part inclusive; later
\* segments are not in the plan, and there are as many slices as segments
\* handed to the stitcher.
C18_SingleDirectionPlan ==
    Located =>
        /\ Len(slices) = last_part_idx + 1
        /\ Len(concat_trajs) = Len(slices)
        /\ \A i \in 1 .. last_part_idx :
               /\ slices[i] = <<0, None, 1>>
               /\ concat_trajs[i] = trajs[i]
        /\ slices[last_part_idx + 1] = <<0, first_frame_in_part + 1, 1>>
        /\ concat_trajs[last_part_idx + 1] = trajs[last_part_idx + 1]
        /\ \A j \in (last_part_idx + 2) .. Len(trajs) :
               \A i \in 1 .. Len(concat_trajs) :
                   concat_trajs[i].id # trajs[j].id

C18_Witness ==
    /\ pc = "concat"
    /\ Len(trajs) = 3
    /\ last_part_idx = 1
    /\ slices = << <<0, None, 1>>, <<0, 1, 1>> >>
    /\ concat_trajs = <<trajs[1], trajs[2]>>

\* the minus part of the plan has been built
MinusPlanned ==
    pc \in {"tp_plus", "tp_concat", "tp_concat_running", "tp_returned"}

\* position in the minus chain and local frame of the first frame on which
\* the minus state holds
MinusHolder == FrameAt(minus_trajs, FirstTrueOf(minus_trajs, minus_state))[1][2]
MinusLocal == FrameAt(minus_trajs, FirstTrueOf(minus_trajs, minus_state))[2]

\* C19: the joined plan starts with the minus part: the minus segment that
\* holds the first frame in the minus state, read with stride -1 from that
\* local frame down to and including frame 0, then every earlier minus
\* segment in descending order, each in full with stride -1; later minus
\* segments and the frames after the first in-state frame are not
\* selected, and the first output frame is the first minus frame in state.
C19_MinusPlan ==
    MinusPlanned =>
        /\ Len(slices) >= MinusHolder + 1
        /\ Len(concat_trajs) = Len(slices)
        /\ (pc = "tp_plus" => Len(slices) = MinusHolder + 1)
        /\ slices[1] = <<MinusLocal, None, -1>>
        /\ concat_trajs[1] = minus_trajs[MinusHolder + 1]
        /\ \A i \in 1 .. MinusHolder :
               /\ slices[1 + i] = <<-1, None, -1>>
               /\ concat_trajs[1 + i] = minus_trajs[MinusHolder + 1 - i]
        /\ \A j \in (MinusHolder + 2) .. Len(minus_trajs) :
               \A i \in 1 .. Len(concat_trajs) :
                   concat_trajs[i].id # minus_trajs[j].id
        /\ pc = "tp_returned" =>
               /\ full_traj[1] = << <<"minus", MinusHolder>>, MinusLocal >>
               /\ \A i \in 1 .. Len(full_traj) :
                      full_traj[i][1] = <<"minus", MinusHolder>>
                          => full_traj[i][2] <= MinusLocal

C19_Witness ==
    /\ pc = "tp_returned"
    /\ PartLens(minus_trajs) = <<1, 1, 1>>
    /\ MinusHolder = 1
    /\ slices[1] = <<0, None, -1>>
    /\ slices[2] = <<-1, None, -1>>
    /\ concat_trajs[2] = minus_trajs[1]

\* position in the plus chain and local frame of the first frame on which
\* the plus state holds
PlusHolder == FrameAt(plus_trajs, FirstTrueOf(plus_trajs, plus_state))[1][2]
PlusLocal == FrameAt(plus_trajs, FirstTrueOf(plus_trajs, plus_state))[2]

\* C20: in the joined plan the plus part follows the minus part with
\* stride +1: when plus segment 0 is the terminal segment it is frames 1
\* through the first in-state frame inclusive of segment 0; otherwise
\* frames 1 to the end of plus segment 0, then every intermediate plus
\* segment in full in ascending order, then frames 0 through the first
\* in-state local frame inclusive of the terminal plus segment.
C20_PlusPlan ==
    pc \in {"tp_concat", "tp_concat_running", "tp_returned"} =>
        LET m == MinusHolder + 1
            k == PlusHolder
        IN /\ Len(slices) = m + k + 1
           /\ Len(concat_trajs) = Len(slices)
           /\ \A i \in 1 .. (k + 1) : concat_trajs[m + i] = plus_trajs[i]
           /\ k = 0 => slices[m + 1] = <<1, PlusLocal + 1, 1>>
           /\ k > 0 =>
                  /\ slices[m + 1] = <<1, None, 1>>
                  /\ \A i \in 2 .. k : slices[m + i] = <<0, None, 1>>
                  /\ slices[m + k + 1] = <<0, PlusLocal + 1, 1>>
           /\ pc = "tp_returned" =>
                  LET gm == FirstTrueOf(minus_trajs, minus_state)
                      gp == FirstTrueOf(plus_trajs, plus_state)
                  IN /\ Len(full_traj) = gm + 1 + gp
                     /\ \A i \in 1 .. gp :
                            full_traj[gm + 1 + i] = FrameAt(plus_trajs, i)

C20_Witness ==
    /\ pc = "tp_returned"
    /\ PartLens(plus_trajs) = <<1, 1, 1>>
    /\ PlusHolder = 2
    /\ PlusLocal = 0
    /\ Len(slices) = MinusHolder + 4
    /\ slices[MinusHolder + 2] = <<1, None, 1>>
    /\ slices[MinusHolder + 3] = <<0, None, 1>>
    /\ slices[MinusHolder + 4] = <<0, 1, 1>>

\* C21: in continuation mode, when no condition holds on the starting
\* configuration or on any recovered segment, the engine is re-attached
\* with prepare_from_files and prepare is never called, the step counter
\* starts at the engine's steps_done, and the segment list stays the
\* recovered segments in order, each newly produced segment being appended
\* behind them in production order, which is the list that is returned.
\* No condition holds on any recovered segment also when none is recovered.
C21_ContinuationReattach ==
    /\ []((call = "propagate" /\ continuation /\ engine.prepared # "no")
            => engine.prepared = "prepare_from_files")
    /\ [][(call = "propagate" /\ continuation /\ pc = "gather"
           /\ ~HasTrue(trajs)) =>
            (pc' = "prepare_from_files" /\ trajs' = trajs
             /\ ret' = <<>>)]_vars
    /\ [][(call = "propagate" /\ pc = "prepare_from_files") =>
            (/\ engine'.prepared = "prepare_from_files"
             /\ step_counter' = engine'.steps_done
             /\ trajs' = trajs
             /\ engine'.runs = 0)]_vars
    /\ [][(call = "propagate" /\ continuation
           /\ engine.prepared = "prepare_from_files") =>
            (/\ (trajs' = trajs \/ (pc = "eval" /\ trajs' = Append(trajs, traj)))
             /\ (pc' = "returned" => ret'[1] = trajs))]_vars

\* what holds of a continuation: the same, when at least one segment was
\* recovered
ReattachAfterRecoveredSegments ==
    /\ []((call = "propagate" /\ continuation /\ engine.prepared # "no")
            => engine.prepared = "prepare_from_files")
    /\ [][(call = "propagate" /\ continuation /\ pc = "gather"
           /\ trajs # <<>> /\ ~HasTrue(trajs)) =>
            (pc' = "prepare_from_files" /\ trajs' = trajs
             /\ ret' = <<>>)]_vars
    /\ [][(call = "propagate" /\ pc = "prepare_from_files") =>
            (/\ engine'.prepared = "prepare_from_files"
             /\ step_counter' = engine'.steps_done
             /\ trajs' = trajs
             /\ engine'.runs = 0)]_vars
    /\ [][(call = "propagate" /\ continuation
           /\ engine.prepared = "prepare_from_files") =>
            (/\ (trajs' = trajs \/ (pc = "eval" /\ trajs' = Append(trajs, traj)))
             /\ (pc' = "returned" => ret'[1] = trajs))]_vars

\* C22: for every segment list propagate returns, the condition index
\* cut_and_concatenate computes over the whole list is the index propagate
\* returned, so propagate_and_concatenate reports the condition propagate
\* reports, on each exit: starting configuration already in a condition,
\* recovered segments already in a condition, stepping. Locating the frame
\* never fails on such a list; the only error after propagate returned is
\* the stitcher's, raised after the index was computed.
C22_SameIndexAfterCut ==
    (call = "propagate" /\ ret # <<>>
     /\ pc \in {"cut", "concat", "concat_running", "cut_returned", "raised"})
        => /\ raised \in {"none", "OutputExists"}
           /\ (pc = "raised") = (raised = "OutputExists")
           /\ trajs = ret[1]
           /\ (Located \/ pc = "raised")
                  => first_condition_fullfilled = ret[2]

C22_Witness ==
    /\ call = "propagate"
    /\ pc = "cut_returned"
    /\ engine.runs = 2
    /\ Len(trajs) = 2
    /\ Cardinality(trajs[2].frames[1]) = 1
    /\ ret[2] = 1
    /\ first_condition_fullfilled = 1

\* C23: when the segment that takes the engine's steps_done past max_steps
\* also holds a frame on which a condition holds, propagate returns the
\* segment list and the condition index and does not raise
\* MaxStepsReachedError: the condition is looked at before the budget.
C23_ConditionBeforeBudget ==
    /\ [][(call = "propagate" /\ pc = "eval" /\ HasTrue(<<traj>>)) =>
            (pc' = "loop" /\ any_cond_fullfilled' /\ raised' = "none")]_vars
    /\ [][(call = "propagate" /\ pc = "loop" /\ any_cond_fullfilled) =>
            (/\ pc' = "returned"
             /\ raised' = "none"
             /\ ret' = <<trajs,
                         LowestOf(CondsAtFirstTrue(<<trajs[Len(trajs)]>>))>>)]_vars
    /\ [](raised = "MaxStepsReachedError" => ~HasTrue(trajs))

C23_Witness ==
    /\ call = "propagate"
    /\ pc = "returned"
    /\ max_steps = 1
    /\ engine.runs = 2
    /\ engine.steps_done = 2
    /\ step_counter = 2
    /\ HasTrue(<<traj>>)
    /\ ret[1] = trajs
    /\ raised = "none"

\* the stitch operations that hold a permit
Holding == {p \in Ops : op_pc[p] \in {"running", "ended"}}

\* every stitch operation has returned or raised
AllFinished == \A p \in Ops : op_pc[p] \in {"returned", "failed"}

\* C24: whether a stitcher call returns or raises, the permit its
\* operation took is given back: the free permits are the capacity less
\* the operations inside the limiter, once all operations have finished
\* the free permits equal the capacity, and a stitch operation waiting for
\* a permit is eventually admitted.
C24_PermitReleased ==
    /\ [](call = "stitch" =>
            /\ sem = MaxProcess - Cardinality(Holding)
            /\ (AllFinished => sem = MaxProcess))
    /\ \A p \in Ops : (op_pc[p] = "wait") ~> (op_pc[p] = "running")
    /\ <>AllFinished

C24_Witness ==
    /\ call = "stitch"
    /\ AllFinished
    /\ sem = MaxProcess
    /\ Cardinality({p \in Ops : op_raised[p] = "OutputExists"}) >= 2
    /\ \E p \in Ops : op_pc[p] = "returned"

\* propagate has returned or raised
Terminated == pc \in {"returned", "raised"}

\* C25: with a finite max_steps and an engine whose steps_done grows with
\* every segment, every propagate call eventually terminates, and it ends
\* either returning a segment list with a condition index or raising
\* MaxStepsReachedError; with the unbounded budget and conditions that
\* never hold it never terminates.
C25_Termination ==
    /\ (max_steps # inf) => <>Terminated
    /\ [](pc = "returned" => (ret # <<>> /\ ret[1] = trajs
                               /\ ret[2] \in Conds))
    /\ [](pc = "raised" => raised = "MaxStepsReachedError")
    /\ []((max_steps = inf /\ ~HasTrue(<<starting_configuration>> \o trajs))
           => ~Terminated)

\* what holds of every call: it terminates under a finite budget, and it
\* ends with a result, with MaxStepsReachedError or, in a continuation
\* that finds no segment on disk, with numpy's ValueError
TerminationWithEmptyContinuation ==
    /\ (max_steps # inf) => <>Terminated
    /\ [](pc = "returned" => (ret # <<>> /\ ret[1] = trajs
                               /\ ret[2] \in Conds))
    /\ [](pc = "raised" =>
            \/ raised = "MaxStepsReachedError"
            \/ (raised = "ValueError" /\ continuation /\ trajs = <<>>))
    /\ []((max_steps = inf /\ ~HasTrue(<<starting_configuration>> \o trajs)
           /\ engine.prepared # "no") => ~Terminated)
    /\ [][(pc = "loop" /\ max_steps = inf /\ ~any_cond_fullfilled) =>
            pc' = "eval"]_vars
====
